---- MODULE Spec2Model ----
(***************************************************************************)
(* Model of the Light HAL service of light/Light.cpp: the controller that  *)
(* arbitrates the ATTENTION and NOTIFICATIONS lights onto one LED blink    *)
(* control and converts BACKLIGHT requests into a panel brightness.        *)
(*                                                                         *)
(* 32-bit unsigned values that may exceed 2^31-1 (a colour, the product    *)
(* brightness * mPanelMaxBrightness) are kept as a pair <<hi, lo>> of      *)
(* 16-bit halves, so that masks, shifts and wrap-around are computed as    *)
(* the code computes them.                                                 *)
(***************************************************************************)
EXTENDS Integers, Sequences, FiniteSets, TLC

\* ------------------------------------------------------------------ bounds

\* Number of binder threads that may be inside the service at once.
NumThreads == 2

\* ------------------------------------------------------- program constants

LED_OFF == 0
LED_BLINK == 10
DEFAULT_MAX_BRIGHTNESS == 255

PANEL_BRIGHTNESS_PATH == "/sys/class/backlight/panel0-backlight/brightness"
MX_LED_BLINK_PATH == "LIGHT_MX_LED_PATH/blink"

INT_MAX == 32767 * 65536 + 65535

\* ------------------------------------------------------ 32-bit arithmetic

Half == 256 * 256

\* a & b on naturals, bit by bit.
BitAndOf[a \in Nat, b \in Nat] ==
    IF a = 0 \/ b = 0 THEN 0
    ELSE (a % 2) * (b % 2) + 2 * BitAndOf[a \div 2, b \div 2]

BitAnd(a, b) == BitAndOf[a, b]

\* x & m for a 32-bit x = <<hi, lo>> and a mask m = <<mhi, mlo>>.
And32(x, m) == <<BitAnd(x[1], m[1]), BitAnd(x[2], m[2])>>

\* (x >> 16) & 0xff and (x >> 8) & 0xff and x & 0xff of a 32-bit x.
Shr16AndFF(x) == BitAnd(x[1], 255)
Shr8AndFF(x) == BitAnd(x[2] \div 256, 255)
AndFF(x) == BitAnd(x[2], 255)

\* The 32-bit unsigned value of an int (the conversion of int to uint32_t).
ToU32(n) == <<(n \div Half) % Half, n % Half>>

\* (b * p) mod 2^32 for a small b (at most 255) and a 32-bit p.
Mul32(b, p) ==
    LET lo == b * p[2]
        hi == b * p[1] + (lo \div Half)
    IN  <<hi % Half, lo % Half>>

\* x / d (truncating) for a 32-bit x and a small d, by long division over the halves.
Div32(x, d) ==
    LET qhi == x[1] \div d
        r == x[1] % d
        qlo == (r * Half + x[2]) \div d
    IN  <<qhi, qlo>>

\* The integer a 32-bit value denotes, when it fits (hi < 2^15).
Val32(x) == x[1] * Half + x[2]

\* ------------------------------------------------------------- LightState

\* A LightState: the 32-bit colour as <<bits 31..16, bits 15..0>> and the
\* metadata the callers supply (never read by Light.cpp).
MkState(hi, lo, flash, mode) ==
    [color |-> <<hi, lo>>, flashMode |-> flash, brightnessMode |-> mode]

Unlit == MkState(0, 0, "NONE", "USER")
Red == MkState(255, 0, "NONE", "USER")
Green == MkState(0, 65280, "NONE", "USER")
Blue == MkState(0, 255, "NONE", "USER")
White == MkState(255, 65535, "NONE", "USER")
Gray == MkState(128, 32896, "NONE", "USER")
AlphaOnly == MkState(65280, 0, "NONE", "USER")
OpaqueWhite == MkState(65535, 65535, "NONE", "USER")
WhiteTimed == MkState(255, 65535, "TIMED", "SENSOR")
UnlitTimed == MkState(0, 0, "TIMED", "SENSOR")

\* A slip: the weights of red and green are exchanged.
rgbToBrightness_weights_swapped(state) ==
    LET color == And32(state.color, <<255, 65535>>)
    IN  (150 * Shr16AndFF(color) + 77 * Shr8AndFF(color) + 29 * AndFF(color)) \div 256

\* uint32_t color = state.color & 0x00ffffff;
\* ((77 * ((color >> 16) & 0xff)) + (150 * ((color >> 8) & 0xff)) + (29 * (color & 0xff))) >> 8
rgbToBrightness(state) ==
    LET color == And32(state.color, <<255, 65535>>)
    IN  (77 * Shr16AndFF(color) + 150 * Shr8AndFF(color) + 29 * AndFF(color)) \div 256

\* A slip: the colour is tested without the 0x00ffffff mask.
isLit_unmasked(state) == state.color # <<0, 0>>

\* return (state.color & 0x00ffffff);
isLit(state) == And32(state.color, <<255, 65535>>) # <<0, 0>>

\* ------------------------------------------------- the capability file read

\* What std::ifstream finds at the path: no file that can be opened, or a
\* file with the given characters.
NoFile == [exists |-> FALSE, text |-> <<>>]
File(text) == [exists |-> TRUE, text |-> text]

IsSpace(c) == c \in {" ", "\n"}
IsDigit(c) == c \in {"0", "1", "2", "3", "4", "5", "6", "7", "8", "9"}
DigitVal(c) ==
    CASE c = "0" -> 0 [] c = "1" -> 1 [] c = "2" -> 2 [] c = "3" -> 3
      [] c = "4" -> 4 [] c = "5" -> 5 [] c = "6" -> 6 [] c = "7" -> 7
      [] c = "8" -> 8 [] c = "9" -> 9

RECURSIVE SkipWs(_)
\* operator>> skips leading whitespace.
SkipWs(s) == IF s # <<>> /\ IsSpace(Head(s)) THEN SkipWs(Tail(s)) ELSE s

RECURSIVE ReadDigits(_, _, _, _)
\* Accumulates the leading digits of s: the magnitude, how many digits were
\* read, and whether the magnitude left the range of int.
ReadDigits(s, acc, n, over) ==
    IF s = <<>> \/ ~IsDigit(Head(s))
    THEN [value |-> acc, digits |-> n, overflow |-> over]
    ELSE LET d == DigitVal(Head(s))
         IN  IF over \/ acc > (INT_MAX - d) \div 10
             THEN ReadDigits(Tail(s), acc, n + 1, TRUE)
             ELSE ReadDigits(Tail(s), acc * 10 + d, n + 1, FALSE)

\* file >> result for an int: optional sign, then digits up to the first
\* other character; no digit or a value out of range sets failbit.
ExtractInt(s) ==
    LET t == SkipWs(s)
        neg == t # <<>> /\ Head(t) = "-"
        u == IF t # <<>> /\ Head(t) \in {"-", "+"} THEN Tail(t) ELSE t
        r == ReadDigits(u, 0, 0, FALSE)
    IN  [fail |-> r.digits = 0 \/ r.overflow,
         value |-> IF r.digits = 0 THEN 0
                   ELSE IF r.overflow THEN INT_MAX
                   ELSE IF neg THEN 0 - r.value ELSE r.value]

\* file.fail() after std::ifstream file(path); file >> result;
StreamFailed(file) == ~file.exists \/ ExtractInt(file.text).fail

\* A slip: the extracted value is returned whether or not the read failed.
get_ignoring_fail(file, def) ==
    IF ~file.exists THEN 0 ELSE ExtractInt(file.text).value

\* return file.fail() ? def : result;
get(file, def) ==
    IF StreamFailed(file) THEN def ELSE ExtractInt(file.text).value

\* Contents of max_brightness the service may find at start-up.
CapFiles ==
    { NoFile,
      File(<<>>),
      File(<<"x">>),
      File(<<"-">>),
      File(<<"2", "5", "5", "\n">>),
      File(<<"1", "0", "2", "3", "\n">>),
      File(<<"4", "0", "9", "5", "\n">>),
      File(<<" ", "4", "0", "9", "5", "x">>),
      File(<<"0", "\n">>),
      File(<<"1", "6", "8", "4", "3", "0", "1", "0", "\n">>),
      File(<<"2", "1", "4", "7", "4", "8", "3", "6", "4", "7">>),
      File(<<"2", "1", "4", "7", "4", "8", "3", "6", "4", "8">>),
      File(<<"9", "9", "9", "9", "9", "9", "9", "9", "9", "9", "9">>) }

\* ------------------------------------------------------------------ state

\* enum Type of the light HAL.
AllTypes ==
    {"BACKLIGHT", "KEYBOARD", "BUTTONS", "BATTERY", "NOTIFICATIONS",
     "ATTENTION", "BLUETOOTH", "WIFI"}

\* The handlers the constructor registers, in the order of its emplace calls.
Registered ==
    << [type |-> "ATTENTION", fn |-> "setAttentionLight"],
       [type |-> "BACKLIGHT", fn |-> "setPanelBacklight"],
       [type |-> "NOTIFICATIONS", fn |-> "setNotificationLight"] >>

\* The keys of mLights after construction.
mLightsKeys == {Registered[i].type : i \in DOMAIN Registered}

\* The orders in which a range-for over mLights may visit its keys: mLights
\* is an associative container (find, emplace of a pair, ->first/->second),
\* whose iteration order is the container's, not the order of insertion.
IterationOrders ==
    {o \in [1..Cardinality(mLightsKeys) -> mLightsKeys] :
        \A i, j \in DOMAIN o : i # j => o[i] # o[j]}

Threads == 1..NumThreads

VARIABLES
    mPanelMaxBrightness,  \* Light::mPanelMaxBrightness
    capReadFailed,        \* whether the constructor's read of max_brightness failed
    mLightsIter,          \* the order in which mLights is iterated
    mAttentionState,      \* Light::mAttentionState
    mNotificationState,   \* Light::mNotificationState
    mLock,                \* Light::mLock: 0 when free, else the holding thread
    brightnessFile,       \* content of PANEL_BRIGHTNESS_PATH
    blinkFile,            \* content of MX_LED_BLINK_PATH
    blinkWrite,           \* outcome of the latest write to MX_LED_BLINK_PATH
    pc,                   \* where each thread is in its call
    call,                 \* the call each thread is making or made last
    ret,                  \* what that call returned
    wr,                   \* the writes that call has issued through set()
    pending,              \* the value a thread has chosen to pass to set(), or -1
    prev                  \* observer: each watched thread's previous call and what it left

vars ==
    <<mPanelMaxBrightness, capReadFailed, mLightsIter, mAttentionState,
      mNotificationState, mLock, brightnessFile, blinkFile, blinkWrite,
      pc, call, ret, wr, pending, prev>>

\* The controller's own fields.
controller == <<mPanelMaxBrightness, mLightsIter, mAttentionState, mNotificationState, mLock>>

\* The two device controls.
devices == <<brightnessFile, blinkFile, blinkWrite>>

NoCall == [op |-> "none", type |-> "NONE", state |-> Unlit]
NoRet == [status |-> "NONE", types |-> <<>>]

\* What the observer holds of a thread that has made at most one call.
NoPrev ==
    [call |-> NoCall, ret |-> NoRet, wr |-> <<>>, attention |-> Unlit,
     notification |-> Unlit, blink |-> LED_OFF, brightness |-> 0]

\* Light::Light(), with the controls as the drivers leave them at boot.
InitWith(files, orders) ==
    /\ \E f \in files :
          /\ mPanelMaxBrightness = get(f, DEFAULT_MAX_BRIGHTNESS)
          /\ capReadFailed = StreamFailed(f)
    /\ mLightsIter \in orders
    /\ mAttentionState = Unlit
    /\ mNotificationState = Unlit
    /\ mLock = 0
    /\ brightnessFile = 0
    /\ blinkFile = LED_OFF
    /\ blinkWrite = "none"
    /\ pc = [t \in Threads |-> "idle"]
    /\ call = [t \in Threads |-> NoCall]
    /\ ret = [t \in Threads |-> NoRet]
    /\ wr = [t \in Threads |-> <<>>]
    /\ pending = [t \in Threads |-> -1]
    /\ prev = [t \in Threads |-> NoPrev]

\* ------------------------------------------------------------- operations

\* Whether a thread is outside any call.
Outside(t) == pc[t] \in {"idle", "done"}

\* mLights.find(type) != mLights.end()
mLightsFind(type) == type \in mLightsKeys

\* A slip: every type is bound to the handler registered first.
mLightsAt_first(type) == 1

\* it->second: the handler registered for a type.
mLightsAt(type) == (CHOOSE i \in DOMAIN Registered : Registered[i].type = type)

\* A slip: the status of a call does not depend on the lookup.
setLightStatus_always_success(found) == "SUCCESS"

\* The status setLight returns.
setLightStatus(found) == IF found THEN "SUCCESS" ELSE "LIGHT_NOT_SUPPORTED"

\* Return<Status> Light::setLight(Type type, const LightState& state): the
\* lookup, and the return when the type has no handler.
setLight(t, type, state) ==
    /\ Outside(t)
    /\ call' = [call EXCEPT ![t] = [op |-> "setLight", type |-> type, state |-> state]]
    /\ wr' = [wr EXCEPT ![t] = <<>>]
    /\ IF mLightsFind(type)
       THEN /\ pc' = [pc EXCEPT ![t] = "lock"]
            /\ ret' = [ret EXCEPT ![t] = NoRet]
       ELSE /\ pc' = [pc EXCEPT ![t] = "done"]
            /\ ret' = [ret EXCEPT ![t] =
                          [status |-> setLightStatus(FALSE), types |-> <<>>]]
    /\ UNCHANGED <<controller, capReadFailed, devices, pending>>

\* A slip: the handler does not wait for the mutex.
LockAvailable_unguarded == TRUE

\* Whether std::lock_guard's constructor can take mLock.
LockAvailable == mLock = 0

\* std::lock_guard<std::mutex> lock(mLock); at the head of each handler.
Acquire(t) ==
    /\ pc[t] = "lock"
    /\ LockAvailable
    /\ mLock' = t
    /\ pc' = [pc EXCEPT ![t] = Registered[mLightsAt(call[t].type)].fn]
    /\ UNCHANGED <<mPanelMaxBrightness, capReadFailed, mLightsIter, mAttentionState,
                   mNotificationState, devices, call, ret, wr, pending>>

\* A slip: a request equal to the stored state toggles the light off.
setAttentionLight_toggling(t) ==
    /\ pc[t] = "setAttentionLight"
    /\ mAttentionState' = IF mAttentionState = call[t].state THEN Unlit ELSE call[t].state
    /\ pc' = [pc EXCEPT ![t] = "setSpeakerBatteryLightLocked"]
    /\ UNCHANGED <<mPanelMaxBrightness, capReadFailed, mLightsIter, mNotificationState,
                   mLock, devices, call, ret, wr, pending>>

\* mAttentionState = state;
setAttentionLight(t) ==
    /\ pc[t] = "setAttentionLight"
    /\ mAttentionState' = call[t].state
    /\ pc' = [pc EXCEPT ![t] = "setSpeakerBatteryLightLocked"]
    /\ UNCHANGED <<mPanelMaxBrightness, capReadFailed, mLightsIter, mNotificationState,
                   mLock, devices, call, ret, wr, pending>>

\* A slip: a request equal to the stored state returns without the write.
setNotificationLight_skipping_unchanged(t) ==
    /\ pc[t] = "setNotificationLight"
    /\ mNotificationState' = call[t].state
    /\ pc' = [pc EXCEPT ![t] =
                 IF mNotificationState = call[t].state THEN "unlock"
                 ELSE "setSpeakerBatteryLightLocked"]
    /\ UNCHANGED <<mPanelMaxBrightness, capReadFailed, mLightsIter, mAttentionState,
                   mLock, devices, call, ret, wr, pending>>

\* mNotificationState = state;
setNotificationLight(t) ==
    /\ pc[t] = "setNotificationLight"
    /\ mNotificationState' = call[t].state
    /\ pc' = [pc EXCEPT ![t] = "setSpeakerBatteryLightLocked"]
    /\ UNCHANGED <<mPanelMaxBrightness, capReadFailed, mLightsIter, mAttentionState,
                   mLock, devices, call, ret, wr, pending>>

\* A slip: only the notification state is consulted.
Arbitrate_notification_only(notif, attn) ==
    IF isLit(notif) THEN LED_BLINK ELSE LED_OFF

\* The value setSpeakerBatteryLightLocked passes to set().
Arbitrate(notif, attn) ==
    IF isLit(notif) THEN LED_BLINK
    ELSE IF isLit(attn) THEN LED_BLINK
    ELSE LED_OFF

\* A slip: a write that fails still empties the file.
set_clearing_on_failure(old, value, ok) == IF ok THEN value ELSE 0

\* set(path, value): the content of the file afterwards; a stream that
\* failed to open writes nothing.
set(old, value, ok) == IF ok THEN value ELSE old

\* void Light::setSpeakerBatteryLightLocked(): the two isLit tests, which
\* choose the value of the set() call that follows.
setSpeakerBatteryLightLocked(t) ==
    /\ pc[t] = "setSpeakerBatteryLightLocked"
    /\ pending' = [pending EXCEPT ![t] = Arbitrate(mNotificationState, mAttentionState)]
    /\ pc' = [pc EXCEPT ![t] = "set"]
    /\ UNCHANGED <<controller, capReadFailed, devices, call, ret, wr>>

\* set(MX_LED_BLINK_PATH, LED_BLINK) or set(MX_LED_BLINK_PATH, LED_OFF)
setBlink(t) ==
    /\ pc[t] = "set"
    /\ \E ok \in BOOLEAN :
          /\ blinkFile' = set(blinkFile, pending[t], ok)
          /\ blinkWrite' = IF ok THEN "ok" ELSE "failed"
          /\ wr' = [wr EXCEPT ![t] =
                       Append(@, [path |-> MX_LED_BLINK_PATH, value |-> pending[t], ok |-> ok])]
    /\ pending' = [pending EXCEPT ![t] = -1]
    /\ pc' = [pc EXCEPT ![t] = "unlock"]
    /\ UNCHANGED <<controller, capReadFailed, brightnessFile, call, ret>>

\* A slip: the scaled value is rounded to nearest.
ScaleBrightness_rounding(brightness, max) ==
    IF max # DEFAULT_MAX_BRIGHTNESS
    THEN (brightness * max + 127) \div DEFAULT_MAX_BRIGHTNESS
    ELSE brightness

\* if (mPanelMaxBrightness != DEFAULT_MAX_BRIGHTNESS)
\*     brightness = brightness * mPanelMaxBrightness / DEFAULT_MAX_BRIGHTNESS;
\* in uint32_t arithmetic.
ScaleBrightness(brightness, max) ==
    IF max # DEFAULT_MAX_BRIGHTNESS
    THEN Val32(Div32(Mul32(brightness, ToU32(max)), DEFAULT_MAX_BRIGHTNESS))
    ELSE brightness

\* void Light::setPanelBacklight(const LightState& state), after the lock.
setPanelBacklight(t) ==
    /\ pc[t] = "setPanelBacklight"
    /\ \E ok \in BOOLEAN :
          LET brightness == ScaleBrightness(rgbToBrightness(call[t].state), mPanelMaxBrightness)
          IN  /\ brightnessFile' = set(brightnessFile, brightness, ok)
              /\ wr' = [wr EXCEPT ![t] =
                           Append(@, [path |-> PANEL_BRIGHTNESS_PATH, value |-> brightness, ok |-> ok])]
    /\ pc' = [pc EXCEPT ![t] = "unlock"]
    /\ UNCHANGED <<controller, capReadFailed, blinkFile, blinkWrite, call, ret, pending>>

\* Variant of Release in which the guard's destructor leaves mLock held.
Release_keeping_lock(t) ==
    /\ pc[t] = "unlock"
    /\ mLock' = mLock
    /\ pc' = [pc EXCEPT ![t] = "done"]
    /\ ret' = [ret EXCEPT ![t] = [status |-> setLightStatus(TRUE), types |-> <<>>]]
    /\ UNCHANGED <<mPanelMaxBrightness, capReadFailed, mLightsIter, mAttentionState,
                   mNotificationState, devices, call, wr, pending>>

\* The end of a handler (the lock_guard is destroyed) and setLight's
\* return Status::SUCCESS.
Release(t) ==
    /\ pc[t] = "unlock"
    /\ mLock' = 0
    /\ pc' = [pc EXCEPT ![t] = "done"]
    /\ ret' = [ret EXCEPT ![t] = [status |-> setLightStatus(TRUE), types |-> <<>>]]
    /\ UNCHANGED <<mPanelMaxBrightness, capReadFailed, mLightsIter, mAttentionState,
                   mNotificationState, devices, call, wr, pending>>

\* A slip: the loop starts at the second entry.
CollectTypes_skipping_first(order) == Tail(order)

\* for (auto const& light : mLights) types.push_back(light.first);
CollectTypes(order) == [i \in 1..Len(order) |-> order[i]]

\* Return<void> Light::getSupportedTypes(getSupportedTypes_cb _hidl_cb)
getSupportedTypes(t) ==
    /\ Outside(t)
    /\ call' = [call EXCEPT ![t] = [op |-> "getSupportedTypes", type |-> "NONE", state |-> Unlit]]
    /\ wr' = [wr EXCEPT ![t] = <<>>]
    /\ ret' = [ret EXCEPT ![t] = [status |-> "VOID", types |-> CollectTypes(mLightsIter)]]
    /\ pc' = [pc EXCEPT ![t] = "done"]
    /\ UNCHANGED <<controller, capReadFailed, devices, pending>>

\* --------------------------------------------------------- specifications

\* A setLight request.
Req(type, state) == [type |-> type, state |-> state]

\* The observer: when a watched thread begins a call, what its previous
\* call was, returned and wrote, and the stored states and controls it left.
Observe(t, watched) ==
    prev' = IF t \in watched
            THEN [prev EXCEPT ![t] =
                     [call |-> call[t], ret |-> ret[t], wr |-> wr[t],
                      attention |-> mAttentionState,
                      notification |-> mNotificationState,
                      blink |-> blinkFile, brightness |-> brightnessFile]]
            ELSE prev

\* One step of one of the threads T, its setLight requests drawn from reqs.
Step(T, reqs, watched) ==
    \E t \in T :
        \/ \E r \in reqs : setLight(t, r.type, r.state) /\ Observe(t, watched)
        \/ getSupportedTypes(t) /\ Observe(t, watched)
        \/ Acquire(t) /\ UNCHANGED prev
        \/ setAttentionLight(t) /\ UNCHANGED prev
        \/ setNotificationLight(t) /\ UNCHANGED prev
        \/ setSpeakerBatteryLightLocked(t) /\ UNCHANGED prev
        \/ setBlink(t) /\ UNCHANGED prev
        \/ setPanelBacklight(t) /\ UNCHANGED prev
        \/ Release(t) /\ UNCHANGED prev

\* Concurrent callers: every thread, a few requests per channel.
ConcurrentRequests ==
    {Req(ty, st) : ty \in {"ATTENTION", "NOTIFICATIONS"}, st \in {Unlit, White}}
        \cup {Req("BACKLIGHT", Gray), Req("BATTERY", White)}

Init == InitWith({File(<<"4", "0", "9", "5", "\n">>)}, {<<"BACKLIGHT", "NOTIFICATIONS", "ATTENTION">>})

Next == Step(Threads, ConcurrentRequests, {})

Spec == Init /\ [][Next]_vars

\* One caller at a time: every start-up, more colours, every unsupported type.
SerialRequests ==
    {Req(ty, st) : ty \in {"ATTENTION", "NOTIFICATIONS"},
                   st \in {Unlit, Red, White, AlphaOnly, WhiteTimed}}
        \cup {Req("BACKLIGHT", st) :
                 st \in {Unlit, Red, Green, Blue, White, Gray, AlphaOnly,
                         OpaqueWhite, WhiteTimed}}
        \cup {Req(ty, White) : ty \in AllTypes \ mLightsKeys}

InitSerial == InitWith(CapFiles, {<<"BACKLIGHT", "NOTIFICATIONS", "ATTENTION">>})

NextSerial == Step({1}, SerialRequests, {})

SpecSerial == InitSerial /\ [][NextSerial]_vars

\* One caller at a time, every order in which mLights may be iterated.
InitTypes == InitWith({File(<<"4", "0", "9", "5", "\n">>)}, IterationOrders)

SpecTypes == InitTypes /\ [][NextSerial]_vars

\* One caller at a time, watched by the observer, so that a call can be
\* compared with the call before it.
RepeatRequests ==
    {Req(ty, st) : ty \in {"ATTENTION", "NOTIFICATIONS"},
                   st \in {Unlit, White, AlphaOnly, WhiteTimed}}
        \cup {Req("BACKLIGHT", st) :
                 st \in {Unlit, Gray, White, AlphaOnly, OpaqueWhite, WhiteTimed}}

InitRepeat ==
    InitWith({NoFile, File(<<"4", "0", "9", "5", "\n">>),
              File(<<"1", "6", "8", "4", "3", "0", "1", "0", "\n">>)},
             {<<"BACKLIGHT", "NOTIFICATIONS", "ATTENTION">>})

NextRepeat == Step({1}, RepeatRequests, {1})

SpecRepeat == InitRepeat /\ [][NextRepeat]_vars

\* Scheduling of the binder threads that run setLight. A thread inside a
\* handler keeps running until it has returned (its steps are non-blocking
\* sysfs writes and the lock_guard's destructor), and a thread blocked in the
\* lock_guard's constructor obtains mLock if the lock becomes free again and
\* again. Whether a client calls at all is left to the client.
Handler(t) ==
    /\ \/ setAttentionLight(t)
       \/ setNotificationLight(t)
       \/ setSpeakerBatteryLightLocked(t)
       \/ setBlink(t)
       \/ setPanelBacklight(t)
       \/ Release(t)
    /\ UNCHANGED prev

Lock(t) == Acquire(t) /\ UNCHANGED prev

Fairness == \A t \in Threads : WF_vars(Handler(t)) /\ SF_vars(Lock(t))

\* One request for each handler and one for a type that is not registered.
FairRequests ==
    {Req("ATTENTION", White), Req("NOTIFICATIONS", White),
     Req("BACKLIGHT", Gray), Req("BATTERY", White)}

NextFair == Step(Threads, FairRequests, {})

SpecFair == Init /\ [][NextFair]_vars /\ Fairness

\* ---------------------------------------------------- vocabulary of claims

Supported == {"ATTENTION", "BACKLIGHT", "NOTIFICATIONS"}

\* Bits 23..16, 15..8 and 7..0 of a colour.
RedOf(st) == st.color[1] % 256
GreenOf(st) == st.color[2] \div 256
BlueOf(st) == st.color[2] % 256

\* A light is lit when the low 24 bits of its colour are not all zero.
Lit24(st) == RedOf(st) # 0 \/ GreenOf(st) # 0 \/ BlueOf(st) # 0

\* (77*R + 150*G + 29*B) >> 8
Luma(st) == (77 * RedOf(st) + 150 * GreenOf(st) + 29 * BlueOf(st)) \div 256

\* The LED value the two stored states call for.
LedFor(notif, attn) ==
    IF Lit24(notif) THEN 10 ELSE IF Lit24(attn) THEN 10 ELSE 0

\* luma * max / 255 over the integers, for max >= 0 (split so that no
\* intermediate value leaves the range of the model checker's integers).
ExactScaled(luma, max) == luma * (max \div 255) + (luma * (max % 255)) \div 255

AllOutside == \A t \in Threads : Outside(t)

\* Thread t is in, or has returned from, a setLight call on one of the types.
InSetLight(t, types) == call[t].op = "setLight" /\ call[t].type \in types

\* Thread t has issued its handler's write.
Written(t) == pc[t] \in {"unlock", "done"}

\* This step is thread t beginning (and, for an unsupported type or
\* getSupportedTypes, completing) a call.
Begins(t) == Outside(t) /\ <<pc[t], call[t], ret[t], wr[t]>> # <<pc'[t], call'[t], ret'[t], wr'[t]>>

\* ------------------------------------------------------------------ claims

\* C1: for every channel other than ATTENTION, BACKLIGHT and NOTIFICATIONS,
\* setLight returns NOT_SUPPORTED and has issued no write through set(), and
\* the step that makes the call leaves the stored attention state, the stored
\* notification state and both device controls as they were.
C1_UnsupportedChannel ==
    /\ [](\A t \in Threads :
            (pc[t] = "done" /\ InSetLight(t, AllTypes \ Supported)) =>
                /\ ret[t].status = "LIGHT_NOT_SUPPORTED"
                /\ wr[t] = <<>>)
    /\ [][\A t \in Threads :
            (Begins(t) /\ call'[t].op = "setLight" /\ call'[t].type \notin Supported) =>
                /\ pc'[t] = "done"
                /\ UNCHANGED <<mAttentionState, mNotificationState, brightnessFile,
                               blinkFile, blinkWrite, mLock>>]_vars

\* An unsupported call has returned while the notification light is lit and
\* the LED blinks.
C1_Witness ==
    /\ pc[1] = "done"
    /\ InSetLight(1, {"BATTERY"})
    /\ isLit(mNotificationState)
    /\ blinkFile = LED_BLINK

SlotOf(type) == IF type = "ATTENTION" THEN mAttentionState ELSE mNotificationState

\* C3: a setLight call on ATTENTION or NOTIFICATIONS has stored its state in
\* its channel's slot before it writes, and issues exactly one write, to the
\* LED blink control, of BLINK when after the store either slot is lit and
\* of OFF otherwise; so NOTIFICATIONS lit then ATTENTION unlit writes BLINK,
\* NOTIFICATIONS unlit with ATTENTION unlit writes OFF, and ATTENTION
\* 0x00FFFFFF with NOTIFICATIONS unlit writes BLINK.
C3_StoreThenOneLedWrite ==
    \A t \in Threads :
        InSetLight(t, {"ATTENTION", "NOTIFICATIONS"}) =>
            /\ pc[t] \in {"lock", "setAttentionLight", "setNotificationLight"} =>
                  wr[t] = <<>>
            /\ pc[t] = "setSpeakerBatteryLightLocked" =>
                  /\ SlotOf(call[t].type) = call[t].state
                  /\ wr[t] = <<>>
            /\ pc[t] = "set" =>
                  /\ SlotOf(call[t].type) = call[t].state
                  /\ wr[t] = <<>>
                  /\ pending[t] = LedFor(mNotificationState, mAttentionState)
            /\ pc[t] = "unlock" =>
                  /\ SlotOf(call[t].type) = call[t].state
                  /\ Len(wr[t]) = 1
                  /\ wr[t][1].path = MX_LED_BLINK_PATH
                  /\ wr[t][1].value = LedFor(mNotificationState, mAttentionState)
                  /\ (call[t].type = "ATTENTION" /\ ~Lit24(call[t].state)
                        /\ mNotificationState = Red) => wr[t][1].value = 10
                  /\ (call[t].type = "NOTIFICATIONS" /\ ~Lit24(call[t].state)
                        /\ ~Lit24(mAttentionState)) => wr[t][1].value = 0
                  /\ (call[t].type = "ATTENTION" /\ call[t].state = White
                        /\ ~Lit24(mNotificationState)) => wr[t][1].value = 10
            /\ pc[t] = "done" =>
                  /\ Len(wr[t]) = 1
                  /\ wr[t][1].path = MX_LED_BLINK_PATH
                  /\ wr[t][1].value \in {0, 10}

\* ATTENTION has just been turned off while NOTIFICATIONS is lit red: the
\* one write of the call is BLINK.
C3_Witness ==
    /\ pc[1] = "unlock"
    /\ InSetLight(1, {"ATTENTION"})
    /\ call[1].state = Unlit
    /\ mNotificationState = Red
    /\ wr[1] = <<[path |-> MX_LED_BLINK_PATH, value |-> LED_BLINK, ok |-> TRUE]>>

\* Thread t is between taking the lock and releasing it.
InHandler(t) ==
    pc[t] \in {"setAttentionLight", "setNotificationLight",
               "setSpeakerBatteryLightLocked", "set", "setPanelBacklight", "unlock"}

\* C4: at most one call at a time is between the start of its state mutation
\* and the end of its device write; that call holds the lock, and while it
\* does, no step of another thread changes a stored state or a device control.
C4_HandlersExclusive ==
    /\ [](\A t, u \in Threads :
            /\ InHandler(t) => mLock = t
            /\ (InHandler(t) /\ InHandler(u)) => t = u)
    /\ [][\A t \in Threads :
            (InHandler(t) /\ pc'[t] = pc[t]) =>
                UNCHANGED <<mAttentionState, mNotificationState, brightnessFile,
                            blinkFile, blinkWrite>>]_vars

\* One call has stored its state and not yet written while another call
\* waits for the lock.
C4_Witness ==
    /\ pc[1] = "setSpeakerBatteryLightLocked"
    /\ pc[2] = "lock"
    /\ InSetLight(2, {"NOTIFICATIONS"})

\* The set of the elements of a sequence.
Range(seq) == {seq[i] : i \in DOMAIN seq}

\* C5: getSupportedTypes returns exactly the set {ATTENTION, BACKLIGHT,
\* NOTIFICATIONS} whatever calls came before, issues no device write, and
\* the step that makes the call changes no controller state and no device
\* control.
C5_SupportedTypesFixed ==
    /\ [](\A t \in Threads :
            (pc[t] = "done" /\ call[t].op = "getSupportedTypes") =>
                /\ Range(ret[t].types) = Supported
                /\ wr[t] = <<>>)
    /\ [][\A t \in Threads :
            (Begins(t) /\ call'[t].op = "getSupportedTypes") =>
                /\ pc'[t] = "done"
                /\ UNCHANGED <<controller, devices>>]_vars

\* getSupportedTypes has returned after setLight calls that lit the attention
\* light and made the LED blink.
C5_Witness ==
    /\ pc[1] = "done"
    /\ call[1].op = "getSupportedTypes"
    /\ Len(ret[1].types) > 0
    /\ isLit(mAttentionState)
    /\ blinkFile = LED_BLINK

\* C6 as stated: getSupportedTypes returns the list ATTENTION, BACKLIGHT,
\* NOTIFICATIONS, the order in which the constructor registers the handlers.
C6_Original ==
    \A t \in Threads :
        (pc[t] = "done" /\ call[t].op = "getSupportedTypes") =>
            ret[t].types = <<"ATTENTION", "BACKLIGHT", "NOTIFICATIONS">>

\* C6, amended: getSupportedTypes returns a list of three entries, each of
\* the registered channels exactly once, in the order in which the handler
\* map is iterated (which need not be the order of registration).
C6_EachTypeOnce ==
    \A t \in Threads :
        (pc[t] = "done" /\ call[t].op = "getSupportedTypes") =>
            /\ Len(ret[t].types) = 3
            /\ \A ty \in Supported :
                  Cardinality({i \in DOMAIN ret[t].types : ret[t].types[i] = ty}) = 1
            /\ \A i \in DOMAIN ret[t].types : ret[t].types[i] = mLightsIter[i]

\* getSupportedTypes has returned a list that begins with BACKLIGHT.
C6_Witness ==
    /\ pc[1] = "done"
    /\ call[1].op = "getSupportedTypes"
    /\ Len(ret[1].types) = 3
    /\ ret[1].types[1] = "BACKLIGHT"

\* C7: the luma of a BACKLIGHT request is (77*R + 150*G + 29*B) >> 8 of bits
\* 23..16, 15..8 and 7..0 of its colour, whatever bits 31..24 are; it is 76
\* for 0x00FF0000, 149 for 0x0000FF00, 28 for 0x000000FF and 255 for
\* 0x00FFFFFF, and always in 0..255; with a maximum brightness of 255 it is
\* the value the handler writes.
C7_Luma ==
    \A t \in Threads :
        InSetLight(t, {"BACKLIGHT"}) =>
            LET st == call[t].state
            IN  /\ rgbToBrightness(st) = Luma(st)
                /\ rgbToBrightness(st) \in 0..255
                /\ st.color = <<255, 0>> => rgbToBrightness(st) = 76
                /\ st.color = <<0, 65280>> => rgbToBrightness(st) = 149
                /\ st.color = <<0, 255>> => rgbToBrightness(st) = 28
                /\ st.color = <<255, 65535>> => rgbToBrightness(st) = 255
                /\ st.color = <<65535, 65535>> => rgbToBrightness(st) = 255
                /\ (Written(t) /\ mPanelMaxBrightness = 255) =>
                      wr[t][1].value = Luma(st)

\* A BACKLIGHT call with colour 0x00FF0000 has written 76 to a panel whose
\* maximum brightness is 255.
C7_Witness ==
    /\ pc[1] = "done"
    /\ InSetLight(1, {"BACKLIGHT"})
    /\ call[1].state = Red
    /\ mPanelMaxBrightness = 255
    /\ wr[1] = <<[path |-> PANEL_BRIGHTNESS_PATH, value |-> 76, ok |-> TRUE]>>
    /\ brightnessFile = 76

\* C8 as stated: a BACKLIGHT call issues exactly one write, to the backlight
\* brightness control, of the luma when PanelMaxBrightness is 255 and of
\* luma * PanelMaxBrightness / 255 (truncated) otherwise.
C8_Claim ==
    \A t \in Threads :
        (InSetLight(t, {"BACKLIGHT"}) /\ Written(t)) =>
            /\ Len(wr[t]) = 1
            /\ wr[t][1].path = PANEL_BRIGHTNESS_PATH
            /\ wr[t][1].value =
                  IF mPanelMaxBrightness = 255 THEN Luma(call[t].state)
                  ELSE ExactScaled(Luma(call[t].state), mPanelMaxBrightness)

\* C9 as stated: with PanelMaxBrightness 4095 and a luma of 128 the value
\* written to the backlight brightness control is 2056.
C9_Original ==
    \A t \in Threads :
        (InSetLight(t, {"BACKLIGHT"}) /\ Written(t)
            /\ mPanelMaxBrightness = 4095 /\ Luma(call[t].state) = 128) =>
                wr[t][1].value = 2056

\* C9, amended: with PanelMaxBrightness 4095 and a luma of 128 the value
\* written to the backlight brightness control is 2055 (128*4095/255
\* truncated).
C9_Scaled4095 ==
    \A t \in Threads :
        (InSetLight(t, {"BACKLIGHT"}) /\ Written(t)
            /\ mPanelMaxBrightness = 4095 /\ Luma(call[t].state) = 128) =>
                /\ wr[t][1].path = PANEL_BRIGHTNESS_PATH
                /\ wr[t][1].value = 2055
                /\ (pc[t] = "unlock" /\ wr[t][1].ok) => brightnessFile = 2055

\* A BACKLIGHT call of luma 128 has written to a panel of maximum 4095.
C9_Witness ==
    /\ pc[1] = "unlock"
    /\ InSetLight(1, {"BACKLIGHT"})
    /\ Luma(call[1].state) = 128
    /\ mPanelMaxBrightness = 4095
    /\ Len(wr[1]) = 1
    /\ wr[1][1].ok
    /\ brightnessFile > 0

\* C10: when the read of the capability file at construction failed,
\* PanelMaxBrightness is 255 and every BACKLIGHT call writes the luma
\* unscaled; and PanelMaxBrightness never changes after construction.
C10_ReadFailureFallback ==
    /\ [](capReadFailed =>
            /\ mPanelMaxBrightness = 255
            /\ \A t \in Threads :
                  (InSetLight(t, {"BACKLIGHT"}) /\ Written(t)) =>
                      /\ Len(wr[t]) = 1
                      /\ wr[t][1].value = Luma(call[t].state))
    /\ [][mPanelMaxBrightness' = mPanelMaxBrightness]_vars

\* After a failed capability read, a BACKLIGHT call with colour 0x00808080
\* has written its luma, 128.
C10_Witness ==
    /\ capReadFailed
    /\ pc[1] = "done"
    /\ InSetLight(1, {"BACKLIGHT"})
    /\ call[1].state = Gray
    /\ wr[1] = <<[path |-> PANEL_BRIGHTNESS_PATH, value |-> 128, ok |-> TRUE]>>
    /\ brightnessFile = 128

\* Thread t is making, or has made, the same setLight call as its previous
\* call, on a supported channel.
Repeats(t) == InSetLight(t, Supported) /\ prev[t].call = call[t]

\* C11: when setLight is called twice in a row with the same state on the
\* same supported channel, the second call issues the write the first one
\* issued (same control file, same value), leaves the stored states as the
\* first call left them, and, when both writes succeed, leaves the control
\* holding what the first call left in it.
C11_Idempotent ==
    \A t \in Threads :
        Repeats(t) =>
            /\ Written(t) =>
                  /\ Len(wr[t]) = 1
                  /\ Len(prev[t].wr) = 1
                  /\ wr[t][1].path = prev[t].wr[1].path
                  /\ wr[t][1].value = prev[t].wr[1].value
                  /\ mAttentionState = prev[t].attention
                  /\ mNotificationState = prev[t].notification
                  /\ (wr[t][1].ok /\ prev[t].wr[1].ok) =>
                        /\ blinkFile = prev[t].blink
                        /\ brightnessFile = prev[t].brightness
            /\ pc[t] = "done" =>
                  /\ ret[t] = prev[t].ret
                  /\ mLock = 0

\* ATTENTION has been set to 0x00FFFFFF twice in a row and both calls have
\* written BLINK.
C11_Witness ==
    /\ pc[1] = "done"
    /\ Repeats(1)
    /\ call[1].type = "ATTENTION"
    /\ call[1].state = White
    /\ ~isLit(mNotificationState)
    /\ prev[1].wr = wr[1]
    /\ wr[1][1].value = LED_BLINK
    /\ wr[1][1].ok

\* C12: a setLight call on a supported channel returns SUCCESS after exactly
\* one write attempt, whether or not that write succeeded; a failed write
\* leaves both controls as they were and the attention or notification slot
\* holding the requested state; LIGHT_NOT_SUPPORTED is the only status other
\* than SUCCESS, and is returned for unsupported channels alone.
C12_WriteFailureUnreported ==
    /\ [](\A t \in Threads :
            /\ (pc[t] = "done" /\ InSetLight(t, Supported)) =>
                  /\ ret[t].status = "SUCCESS"
                  /\ Len(wr[t]) = 1
            /\ (pc[t] = "unlock" /\ InSetLight(t, {"ATTENTION", "NOTIFICATIONS"})) =>
                  SlotOf(call[t].type) = call[t].state
            /\ (pc[t] = "done" /\ call[t].op = "setLight") =>
                  ret[t].status \in {"SUCCESS", "LIGHT_NOT_SUPPORTED"}
            /\ ret[t].status = "LIGHT_NOT_SUPPORTED" => call[t].type \notin Supported)
    /\ [][\A t \in Threads :
            (Len(wr'[t]) > Len(wr[t]) /\ ~wr'[t][Len(wr'[t])].ok) =>
                UNCHANGED <<blinkFile, brightnessFile, mAttentionState,
                            mNotificationState>>]_vars

\* An ATTENTION call whose LED write failed has returned SUCCESS: the slot
\* is lit and the LED control still holds OFF.
C12_Witness ==
    /\ pc[1] = "done"
    /\ InSetLight(1, {"ATTENTION"})
    /\ call[1].state = White
    /\ wr[1] = <<[path |-> MX_LED_BLINK_PATH, value |-> LED_BLINK, ok |-> FALSE]>>
    /\ ret[1].status = "SUCCESS"
    /\ mAttentionState = White
    /\ blinkFile = LED_OFF

\* Two states whose colours agree in bits 23..0.
SameRGB(a, b) == RedOf(a) = RedOf(b) /\ GreenOf(a) = GreenOf(b) /\ BlueOf(a) = BlueOf(b)

\* Thread t is making, or has made, a setLight call on the channel of its
\* previous call with a state that differs from that call's state at most
\* in bits 31..24 of the colour and in the flash and brightness modes.
RepeatsRGB(t) ==
    /\ InSetLight(t, Supported)
    /\ prev[t].call.op = "setLight"
    /\ prev[t].call.type = call[t].type
    /\ SameRGB(prev[t].call.state, call[t].state)

\* C13: a state is lit exactly when bits 23..0 of its colour are not all
\* zero, so a colour with only bits 31..24 set is unlit; and a call whose
\* state differs from the state of the call before it, on the same channel,
\* only in bits 31..24 or in the flash and brightness modes issues the same
\* LED write or backlight write as that call.
C13_OnlyRGBCounts ==
    \A t \in Threads :
        /\ isLit(call[t].state) <=> Lit24(call[t].state)
        /\ isLit(mAttentionState) <=> Lit24(mAttentionState)
        /\ isLit(mNotificationState) <=> Lit24(mNotificationState)
        /\ call[t].state.color = <<65280, 0>> => ~isLit(call[t].state)
        /\ (RepeatsRGB(t) /\ Written(t)) =>
              /\ Len(wr[t]) = 1
              /\ Len(prev[t].wr) = 1
              /\ wr[t][1].path = prev[t].wr[1].path
              /\ wr[t][1].value = prev[t].wr[1].value

\* NOTIFICATIONS was set to colour 0 and then to colour 0xFF000000 with
\* flash and brightness modes unchanged, the attention light unlit: both
\* calls wrote OFF.
C13_Witness ==
    /\ pc[1] = "done"
    /\ InSetLight(1, {"NOTIFICATIONS"})
    /\ call[1].state = AlphaOnly
    /\ prev[1].call = [op |-> "setLight", type |-> "NOTIFICATIONS", state |-> Unlit]
    /\ ~isLit(mAttentionState)
    /\ wr[1][1].value = LED_OFF
    /\ prev[1].wr[1].value = LED_OFF
    /\ wr[1][1].ok
    /\ blinkFile = LED_OFF

\* A BACKLIGHT call with colour 0xFFFFFFFF has followed one with colour
\* 0x00FFFFFF in timed flash mode, and both wrote the same brightness.
C13_WitnessBacklight ==
    /\ pc[1] = "done"
    /\ InSetLight(1, {"BACKLIGHT"})
    /\ call[1].state = OpaqueWhite
    /\ prev[1].call.state = WhiteTimed
    /\ RepeatsRGB(1)
    /\ wr[1][1].value = prev[1].wr[1].value

\* C14: with concurrent ATTENTION and NOTIFICATIONS callers, every LED write
\* that succeeds puts into the control the arbitration of the two stored
\* states as they are at that moment, never a value chosen from an earlier
\* pair; so once every call has returned, the writes having succeeded, the
\* control holds the arbitration of the final stored states.
C14_NoStaleLedWrite ==
    /\ [][\A t \in Threads :
            (pc[t] = "set" /\ pc'[t] = "unlock" /\ wr'[t][1].ok) =>
                blinkFile' = LedFor(mNotificationState', mAttentionState')]_vars
    /\ []((/\ AllOutside
           /\ blinkWrite = "ok"
           /\ \A t \in Threads : \A i \in DOMAIN wr[t] : wr[t][i].ok) =>
                blinkFile = LedFor(mNotificationState, mAttentionState))

\* Both callers have returned, one from turning ATTENTION off (it wrote OFF)
\* and one from lighting NOTIFICATIONS; every write succeeded and the LED
\* blinks.
C14_Witness ==
    /\ AllOutside
    /\ InSetLight(1, {"ATTENTION"})
    /\ InSetLight(2, {"NOTIFICATIONS"})
    /\ wr[1] = <<[path |-> MX_LED_BLINK_PATH, value |-> LED_OFF, ok |-> TRUE]>>
    /\ wr[2] = <<[path |-> MX_LED_BLINK_PATH, value |-> LED_BLINK, ok |-> TRUE]>>
    /\ isLit(mNotificationState)
    /\ ~isLit(mAttentionState)
    /\ blinkFile = LED_BLINK

\* C15: no step of a BACKLIGHT call changes the stored attention state, the
\* stored notification state or the LED blink control, and its write goes to
\* the backlight brightness control; no step of an ATTENTION call changes the
\* notification slot, none of a NOTIFICATIONS call the attention slot, and
\* neither changes or writes the backlight brightness control; no call
\* changes PanelMaxBrightness.
C15_Frame ==
    /\ [][\A t \in Threads :
            (pc'[t] # pc[t] /\ call'[t].op = "setLight") =>
                /\ mPanelMaxBrightness' = mPanelMaxBrightness
                /\ call'[t].type = "BACKLIGHT" =>
                      UNCHANGED <<mAttentionState, mNotificationState, blinkFile, blinkWrite>>
                /\ call'[t].type = "ATTENTION" =>
                      UNCHANGED <<mNotificationState, brightnessFile>>
                /\ call'[t].type = "NOTIFICATIONS" =>
                      UNCHANGED <<mAttentionState, brightnessFile>>]_vars
    /\ [](\A t \in Threads : \A i \in DOMAIN wr[t] :
            /\ InSetLight(t, {"BACKLIGHT"}) => wr[t][i].path = PANEL_BRIGHTNESS_PATH
            /\ InSetLight(t, {"ATTENTION", "NOTIFICATIONS"}) =>
                  wr[t][i].path = MX_LED_BLINK_PATH)

\* A BACKLIGHT call has written the brightness while the attention light is
\* lit and the LED blinks.
C15_Witness ==
    /\ pc[1] = "done"
    /\ InSetLight(1, {"BACKLIGHT"})
    /\ call[1].state = White
    /\ wr[1][1].ok
    /\ brightnessFile = 255
    /\ mAttentionState = Red
    /\ ~isLit(mNotificationState)
    /\ blinkFile = LED_BLINK

\* The previous call of thread t left the LED control disagreeing with the
\* stored states: its LED write failed.
LeftLedWrong(t) ==
    /\ prev[t].call.op = "setLight"
    /\ prev[t].call.type \in {"ATTENTION", "NOTIFICATIONS"}
    /\ Len(prev[t].wr) = 1
    /\ ~prev[t].wr[1].ok
    /\ prev[t].blink # LedFor(prev[t].notification, prev[t].attention)

\* C16: every ATTENTION or NOTIFICATIONS call issues its LED write, also
\* when its state equals the state already stored; and a call whose write
\* succeeds leaves the LED control equal to the arbitration of the stored
\* states, in particular after a call whose failed write left the control
\* disagreeing with them.
C16_LevelTriggered ==
    \A t \in Threads :
        InSetLight(t, {"ATTENTION", "NOTIFICATIONS"}) =>
            /\ Written(t) => Len(wr[t]) = 1
            /\ (Written(t) /\ wr[t][1].ok) =>
                  blinkFile = LedFor(mNotificationState, mAttentionState)
            /\ (LeftLedWrong(t) /\ Repeats(t) /\ pc[t] = "set") =>
                  pending[t] # blinkFile
            /\ (LeftLedWrong(t) /\ Repeats(t) /\ Written(t) /\ wr[t][1].ok) =>
                  /\ blinkFile # prev[t].blink
                  /\ blinkFile = wr[t][1].value

\* NOTIFICATIONS was set lit with a write that failed, leaving the LED off;
\* the same request made again has written BLINK.
C16_Witness ==
    /\ pc[1] = "done"
    /\ InSetLight(1, {"NOTIFICATIONS"})
    /\ call[1].state = White
    /\ Repeats(1)
    /\ LeftLedWrong(1)
    /\ prev[1].blink = LED_OFF
    /\ wr[1] = <<[path |-> MX_LED_BLINK_PATH, value |-> LED_BLINK, ok |-> TRUE]>>
    /\ blinkFile = LED_BLINK

\* C17 as stated: for every PanelMaxBrightness p >= 1 read from the
\* capability file, the value a BACKLIGHT call writes lies in 0..p, is 0 for
\* a colour whose bits 23..0 are 0, is p for colour 0x00FFFFFF, and is not
\* smaller than the value written by the previous BACKLIGHT call when that
\* call's luma was not larger.
C17_Claim ==
    \A t \in Threads :
        (InSetLight(t, {"BACKLIGHT"}) /\ Written(t)
            /\ ~capReadFailed /\ mPanelMaxBrightness >= 1) =>
                /\ wr[t][1].value \in 0..mPanelMaxBrightness
                /\ ~Lit24(call[t].state) => wr[t][1].value = 0
                /\ SameRGB(call[t].state, White) => wr[t][1].value = mPanelMaxBrightness
                /\ (/\ prev[t].call.op = "setLight"
                    /\ prev[t].call.type = "BACKLIGHT"
                    /\ Luma(prev[t].call.state) <= Luma(call[t].state)) =>
                        prev[t].wr[1].value <= wr[t][1].value

\* C18: under fair scheduling every setLight call of every caller returns
\* with the lock released. mLock is taken only by a caller waiting for it,
\* a caller waits for it once per call, a caller holds it exactly while it
\* is inside a handler, a waiting caller is never blocked by anything but a
\* caller that can still run, and every call that has begun to wait
\* eventually returns without holding the lock.
HoldsLock(t) == InHandler(t)

====
